---- MODULE Spec2Model ----
(***************************************************************************)
(* Model of app_project_analyzer: AsyncProjectAnalyzer                     *)
(* (src/project_analyzer_async.py) and its command-line driver             *)
(* (src/main.py).                                                          *)
(*                                                                         *)
(* Three specifications share the module:                                  *)
(*   SpecSanitizer  summarize_file applied to every short text             *)
(*   SpecLimiter    concurrent generate_summary calls on one analyzer      *)
(*   Spec           main -> analyze_project, run after run                 *)
(***************************************************************************)
EXTENDS Integers, Sequences, FiniteSets, TLC

VARIABLES
    \* ---- summarize_file on one file (SpecSanitizer)
    sf_disk,        \* the text of the file on disk
    sf_pc,          \* "reading" | "returned"
    sf_result,      \* the value summarize_file returned
    sf_logged,      \* TRUE when read_file logged an error
    \* ---- the analyzer object (SpecLimiter and Spec)
    llm_provider,           \* self.llm_provider
    max_concurrent_calls,   \* the value the semaphore was built with
    semaphore,              \* self.semaphore: the slots available
    \* ---- concurrent generate_summary invocations (SpecLimiter)
    gs_pc,          \* per invocation: "idle" | "acquire" | "in_flight" |
                    \*   "returned" | "raised_provider" | "raised_unsupported"
    \* ---- one run of main / analyze_project after another (Spec)
    entry,          \* "main": through main(); "direct": analyze_project called
    project_path,   \* args.directory / project_path
    file_list,      \* args.files / file_list: [given, items]
    pc,             \* "start" | "gather" | "generate" | "done" | "nothing" |
                    \*   "raised" | "usage_error"
    exc,            \* the exception that ended the run, "none" if none
    files,          \* the collected file sequence
    tasks,          \* per file: [done, text], the summarize_file coroutines
    summaries,      \* the dict analyze_files returned, in insertion order
    llm,            \* the provider call: "idle" | "in_flight" | "responded" | "failed"
    log,            \* the messages logged in this run
    out_exists,     \* the output directory exists
    out_files,      \* the files of the output directory: name -> content
    out_before      \* out_exists and out_files when the run started

sanVars == <<sf_disk, sf_pc, sf_result, sf_logged>>
objVars == <<llm_provider, max_concurrent_calls, semaphore>>
limVars == <<gs_pc>>
argVars == <<entry, project_path, file_list>>
outVars == <<out_exists, out_files>>
runVars == <<argVars, pc, exc, files, tasks, summaries, llm, log, outVars, out_before>>

vars == <<sanVars, objVars, limVars, runVars>>

----------------------------------------------------------------------------
(* Bounds of the model *)

MaxLen == 5         \* longest file text of SpecSanitizer, in characters
MaxCalls == 3       \* generate_summary invocations of SpecLimiter
MaxLimit == 2       \* largest max_concurrent_calls of SpecLimiter
MaxFiles == 2       \* longest file list given to a run of Spec

----------------------------------------------------------------------------
(* Texts: a text is a sequence of one-character strings. *)

HASH == "#"
NL == "\n"
DQUOTE == "\""
SQUOTE == "'"
BACKSLASH == "\\"

Alphabet == {HASH, NL, DQUOTE, SQUOTE, BACKSLASH, " ", "a"}

Texts(n) == UNION {[1..k -> Alphabet] : k \in 0..n}

EmptyText == <<>>

\* The characters the lookbehind (?<!["'\\]) of the first substitution names.
LookbehindNoQuote == {BACKSLASH}
Lookbehind == {DQUOTE, SQUOTE, BACKSLASH}

\* The characters of the alphabet that \s matches.
Whitespace == {" ", NL}

\* Where '$' (re.MULTILINE) matches at or after position i: the next line
\* terminator, or one past the end of the text.
LineEnd(s, i) ==
    IF \E j \in i..Len(s) : s[j] = NL
    THEN CHOOSE j \in i..Len(s) : s[j] = NL /\ \A k \in i..(j-1) : s[k] # NL
    ELSE Len(s) + 1

\* '^' (re.MULTILINE): the start of the text or just after a line terminator.
AtLineStart(s, i) == i = 1 \/ s[i-1] = NL

\* (?<!["'\\])# at position i.
\* (variant: the lookbehind without the two quote characters)
InlineMatchUnguarded(s, i) == s[i] = HASH /\ (i = 1 \/ s[i-1] \notin LookbehindNoQuote)
InlineMatch(s, i) == s[i] = HASH /\ (i = 1 \/ s[i-1] \notin Lookbehind)

\* re.sub(r'(?<!["\'\\])#.*$', "", content, flags=re.MULTILINE): the positions
\* of s, from i on, that the substitution keeps.
RECURSIVE InlineKept(_, _)
InlineKept(s, i) ==
    IF i > Len(s) THEN <<>>
    ELSE IF InlineMatch(s, i) THEN InlineKept(s, LineEnd(s, i))
    ELSE <<i>> \o InlineKept(s, i + 1)

\* One (\s*#.*\n) group starting at i: the position after it, 0 if none.
FirstNonSpace(s, i) ==
    IF \E j \in i..Len(s) : s[j] \notin Whitespace
    THEN CHOOSE j \in i..Len(s) :
            s[j] \notin Whitespace /\ \A k \in i..(j-1) : s[k] \in Whitespace
    ELSE Len(s) + 1

GroupEnd(s, i) ==
    LET j == FirstNonSpace(s, i) IN
    IF j <= Len(s) /\ s[j] = HASH /\ LineEnd(s, j) <= Len(s)
    THEN LineEnd(s, j) + 1
    ELSE 0

\* (\s*#.*\n)+ , greedy: the position after the last group of the run at i.
RECURSIVE RunEnd(_, _)
RunEnd(s, i) ==
    IF i <= Len(s) /\ GroupEnd(s, i) # 0 THEN RunEnd(s, GroupEnd(s, i)) ELSE i

\* re.sub(r"^(\s*#.*\n)+", "", content, flags=re.MULTILINE): kept positions.
RECURSIVE LeadingKept(_, _)
LeadingKept(s, i) ==
    IF i > Len(s) THEN <<>>
    ELSE IF AtLineStart(s, i) /\ GroupEnd(s, i) # 0 THEN LeadingKept(s, RunEnd(s, i))
    ELSE <<i>> \o LeadingKept(s, i + 1)

Pick(s, kept) == [k \in 1..Len(kept) |-> s[kept[k]]]

strip_inline(s) == Pick(s, InlineKept(s, 1))
strip_leading(s) == Pick(s, LeadingKept(s, 1))

\* The same with the two substitutions in the other order.
sanitizeLeadingFirst(content) ==
    IF content # EmptyText THEN strip_inline(strip_leading(content)) ELSE content

\* summarize_file after read_file returned `content`.
sanitize(content) ==
    IF content # EmptyText THEN strip_leading(strip_inline(content)) ELSE content

\* The positions of `content` that survive both substitutions, in order.
KeptSeq(content) ==
    LET k1 == InlineKept(content, 1)
        k2 == LeadingKept(strip_inline(content), 1)
    IN  [k \in 1..Len(k2) |-> k1[k2[k]]]

KeptPositions(content) == {KeptSeq(content)[k] : k \in 1..Len(KeptSeq(content))}

----------------------------------------------------------------------------
(* The analyzer object: provider dispatch and asyncio.Semaphore *)

Providers == {"openai", "claude", "llama3", "other"}

\* The if/elif chain of generate_summary reaches a provider call.
Supported(provider) == provider \in {"claude", "openai", "llama3"}

\* asyncio.Semaphore.acquire proceeds only while a slot is available.
\* (variant: acquire that never waits)
CanAcquireAlways(value) == TRUE
CanAcquire(value) == value > 0

Acquire(value) == value - 1

\* `async with self.semaphore` leaves its body: __aexit__ releases the slot,
\* whether the body returned or raised.
\* (variant: the slot is released only when the body returned)
AsyncWithExitLeakOnRaise(value, raised) == IF raised THEN value ELSE value + 1
AsyncWithExit(value, raised) == value + 1

ObjIdle ==
    /\ llm_provider = "openai"
    /\ max_concurrent_calls = 0
    /\ semaphore = 0

LimIdle == gs_pc = <<>>

----------------------------------------------------------------------------
(* Paths, the file system and the output directory *)

\* A path or file name is a sequence of pieces; SEP is os.sep.
SEP == "/"

JoinPath(root, file) == root \o <<SEP>> \o file

\* os.path.basename: what follows the last separator.
RECURSIVE basename(_)
basename(path) ==
    IF \E k \in 1..Len(path) : path[k] = SEP
    THEN basename(Tail(path))
    ELSE path

\* str.replace(os.sep, "_")
ReplaceSep(name) == [k \in 1..Len(name) |-> IF name[k] = SEP THEN "_" ELSE name[k]]

\* str.endswith(".py")
EndsWithPy(name) == Len(name) > 0 /\ name[Len(name)] = ".py"

FileXinA == <<"proj", SEP, "a", SEP, "x", ".py">>
FileXinB == <<"proj", SEP, "b", SEP, "x", ".py">>
FileYinA == <<"proj", SEP, "a", SEP, "y", ".py">>

\* The paths a caller may put in a file list.
ListedPaths == {FileXinA, FileXinB}

FileLists == UNION {[1..k -> ListedPaths] : k \in 0..MaxFiles}

\* The text of each file on disk.
FileContent(path) ==
    IF path = FileXinA THEN <<"a", "#", "a">>
    ELSE IF path = FileXinB THEN <<" ", "#">>
    ELSE <<"#", "a">>

\* os.walk(project_path): the (root, file) pairs in walk order.
WalkEntries(path) ==
    IF path = "proj"
    THEN << <<<<"proj">>, <<"README", ".md">>>>,
            <<<<"proj", SEP, "a">>, <<"x", ".py">>>>,
            <<<<"proj", SEP, "a">>, <<"y", ".py">>>>,
            <<<<"proj", SEP, "b">>, <<"x", ".py">>>> >>
    ELSE IF path = "docs"
    THEN << <<<<"docs">>, <<"README", ".md">>>> >>
    ELSE <<>>

\* [os.path.join(root, file) for ... if file.endswith(".py")]
RECURSIVE PythonFiles(_)
PythonFiles(entries) ==
    IF entries = <<>> THEN <<>>
    ELSE LET e == Head(entries)
         IN  (IF EndsWithPy(e[2]) THEN <<JoinPath(e[1], e[2])>> ELSE <<>>)
                 \o PythonFiles(Tail(entries))

NoPath == "<None>"
ProjectPaths == {NoPath, "", "docs", "proj"}
NoList == [given |-> FALSE, items |-> <<>>]

\* Python truthiness of the two optional arguments.
TruthyPath(path) == path # NoPath /\ path # ""
\* (variant: `file_list is not None`)
TruthyListIsNotNone(list) == list.given
TruthyList(list) == list.given /\ list.items # <<>>

\* The response of the provider, written verbatim.
Response == <<"SUMMARY">>
SummaryName == <<"project_summary", ".md">>

\* f"{rel_path}.json" with rel_path = os.path.basename(file).replace(os.sep, "_")
OutputName(file) == ReplaceSep(basename(file)) \o <<".json">>

\* A dict, in insertion order: a sequence of [key, value] without repeated keys.
Keys(dict) == [k \in 1..Len(dict) |-> dict[k].key]
KeySet(dict) == {dict[k].key : k \in 1..Len(dict)}

DictSet(dict, key, value) ==
    IF key \in KeySet(dict)
    THEN [k \in 1..Len(dict) |->
             IF dict[k].key = key THEN [key |-> key, value |-> value] ELSE dict[k]]
    ELSE Append(dict, [key |-> key, value |-> value])

\* {file: summary for file, summary in zip(files, summaries) if summary},
\* over the first n pairs.
\* (variant: without `if summary`)
RECURSIVE DictOfUnfiltered(_, _, _)
DictOfUnfiltered(fs, texts, n) ==
    IF n = 0 THEN <<>>
    ELSE DictSet(DictOfUnfiltered(fs, texts, n - 1), fs[n], texts[n])
RECURSIVE DictOf(_, _, _)
DictOf(fs, texts, n) ==
    IF n = 0 THEN <<>>
    ELSE IF texts[n] # EmptyText
         THEN DictSet(DictOf(fs, texts, n - 1), fs[n], texts[n])
         ELSE DictOf(fs, texts, n - 1)

\* asyncio.gather(*tasks) returns once every task is done.
\* (variant: returns once any task is done)
GatherReadyOnFirst(ts) == \E i \in 1..Len(ts) : ts[i].done
GatherReady(ts) == \A i \in 1..Len(ts) : ts[i].done

\* The per-file writes of analyze_project, over the first n dict entries.
RECURSIVE WriteSummaries(_, _, _)
WriteSummaries(dir, dict, n) ==
    IF n = 0 THEN dir
    ELSE (OutputName(dict[n].key) :> dict[n].value) @@ WriteSummaries(dir, dict, n - 1)

\* The directory after the per-file writes and the project summary write.
SavedFiles(dir, dict, project_summary) ==
    (SummaryName :> project_summary) @@ WriteSummaries(dir, dict, Len(dict))

RunIdle ==
    /\ entry = "direct"
    /\ project_path = NoPath
    /\ file_list = NoList
    /\ pc = "idle"
    /\ exc = "none"
    /\ files = <<>>
    /\ tasks = <<>>
    /\ summaries = <<>>
    /\ llm = "idle"
    /\ log = {}
    /\ out_exists = FALSE
    /\ out_files = <<>>
    /\ out_before = [exists |-> FALSE, files |-> <<>>]

----------------------------------------------------------------------------
(* SpecSanitizer: summarize_file on one file *)

SanIdle ==
    /\ sf_disk = EmptyText
    /\ sf_pc = "idle"
    /\ sf_result = EmptyText
    /\ sf_logged = FALSE

SanInit ==
    /\ sf_disk \in Texts(MaxLen)
    /\ sf_pc = "reading"
    /\ sf_result = EmptyText
    /\ sf_logged = FALSE

\* read_file returns the text; summarize_file applies both substitutions.
SummarizeFileOk ==
    /\ sf_pc = "reading"
    /\ sf_result' = sanitize(sf_disk)
    /\ sf_pc' = "returned"
    /\ UNCHANGED <<sf_disk, sf_logged>>
    /\ UNCHANGED <<objVars, limVars, runVars>>

\* read_file catches the exception, logs it and returns "".
SummarizeFileReadError ==
    /\ sf_pc = "reading"
    /\ sf_result' = sanitize(EmptyText)
    /\ sf_logged' = TRUE
    /\ sf_pc' = "returned"
    /\ UNCHANGED sf_disk
    /\ UNCHANGED <<objVars, limVars, runVars>>

NextSanitizer ==
    \/ SummarizeFileOk
    \/ SummarizeFileReadError

InitSanitizer == SanInit /\ ObjIdle /\ LimIdle /\ RunIdle

SpecSanitizer == InitSanitizer /\ [][NextSanitizer]_vars

----------------------------------------------------------------------------
(* SpecLimiter: generate_summary invocations sharing one analyzer *)

Calls == 1..MaxCalls

\* generate_summary is entered; the prompt is built and the invocation
\* reaches `async with self.semaphore`.
GenerateSummaryInvoke(i) ==
    /\ gs_pc[i] = "idle"
    /\ gs_pc' = [gs_pc EXCEPT ![i] = "acquire"]
    /\ UNCHANGED objVars
    /\ UNCHANGED <<sanVars, runVars>>

\* The slot is acquired and the provider coroutine is awaited.
GenerateSummaryDispatch(i) ==
    /\ gs_pc[i] = "acquire"
    /\ CanAcquire(semaphore)
    /\ Supported(llm_provider)
    /\ semaphore' = Acquire(semaphore)
    /\ gs_pc' = [gs_pc EXCEPT ![i] = "in_flight"]
    /\ UNCHANGED <<llm_provider, max_concurrent_calls>>
    /\ UNCHANGED <<sanVars, runVars>>

\* The slot is acquired, the else branch raises ValueError, __aexit__ runs.
GenerateSummaryUnsupported(i) ==
    /\ gs_pc[i] = "acquire"
    /\ CanAcquire(semaphore)
    /\ ~Supported(llm_provider)
    /\ semaphore' = AsyncWithExit(Acquire(semaphore), TRUE)
    /\ gs_pc' = [gs_pc EXCEPT ![i] = "raised_unsupported"]
    /\ UNCHANGED <<llm_provider, max_concurrent_calls>>
    /\ UNCHANGED <<sanVars, runVars>>

\* The provider call returns its response; __aexit__ runs.
GenerateSummaryReturns(i) ==
    /\ gs_pc[i] = "in_flight"
    /\ semaphore' = AsyncWithExit(semaphore, FALSE)
    /\ gs_pc' = [gs_pc EXCEPT ![i] = "returned"]
    /\ UNCHANGED <<llm_provider, max_concurrent_calls>>
    /\ UNCHANGED <<sanVars, runVars>>

\* The provider call raises; __aexit__ runs and the exception propagates.
GenerateSummaryProviderRaises(i) ==
    /\ gs_pc[i] = "in_flight"
    /\ semaphore' = AsyncWithExit(semaphore, TRUE)
    /\ gs_pc' = [gs_pc EXCEPT ![i] = "raised_provider"]
    /\ UNCHANGED <<llm_provider, max_concurrent_calls>>
    /\ UNCHANGED <<sanVars, runVars>>

NextLimiter ==
    \/ \E i \in Calls : GenerateSummaryInvoke(i)
    \/ \E i \in Calls : GenerateSummaryDispatch(i)
    \/ \E i \in Calls : GenerateSummaryUnsupported(i)
    \/ \E i \in Calls : GenerateSummaryReturns(i)
    \/ \E i \in Calls : GenerateSummaryProviderRaises(i)

\* AsyncProjectAnalyzer(llm_provider, max_concurrent_calls=k)
InitLimiter ==
    /\ SanIdle
    /\ RunIdle
    /\ llm_provider \in Providers
    /\ max_concurrent_calls \in 0..MaxLimit
    /\ semaphore = max_concurrent_calls
    /\ gs_pc = [i \in Calls |-> "idle"]

SpecLimiter == InitLimiter /\ [][NextLimiter]_vars

InFlight == {i \in Calls : gs_pc[i] = "in_flight"}
Ended == {i \in Calls : gs_pc[i] \in {"returned", "raised_provider", "raised_unsupported"}}
Invoked == {i \in Calls : gs_pc[i] # "idle"}

\* C1: at no point are more than max_concurrent_calls provider calls in
\* flight on one analyzer, however many generate_summary invocations run.
C1_InFlightAtMostLimit == Cardinality(InFlight) <= max_concurrent_calls

C1_Witness ==
    /\ max_concurrent_calls >= 1
    /\ Cardinality(InFlight) = max_concurrent_calls
    /\ \E i \in Calls : gs_pc[i] = "acquire"

\* C9: every invocation holds exactly one slot while its provider call is in
\* flight and has given it back when it ended, by a response, a provider
\* failure or an unsupported provider; the slot count never leaves
\* 0..max_concurrent_calls and is max_concurrent_calls again once all
\* invocations have ended.
C9_SlotsBalanced ==
    /\ semaphore = max_concurrent_calls - Cardinality(InFlight)
    /\ semaphore \in 0..max_concurrent_calls
    /\ (Invoked = Ended) => semaphore = max_concurrent_calls

C9_Witness ==
    /\ Ended = Calls
    /\ semaphore = max_concurrent_calls
    /\ \E i \in Calls : gs_pc[i] = "returned"
    /\ \E i \in Calls : gs_pc[i] = "raised_provider"

----------------------------------------------------------------------------
(* Spec: main and analyze_project, one run after another into one output   *)
(* directory                                                               *)

DefaultConcurrency == 5

Outputs == [exists |-> out_exists, files |-> out_files]

\* The arguments a run can start with.  Through main, argparse gives a file
\* list of at least one path (nargs="+") or none, and one of the three
\* provider choices; a direct caller of analyze_project may pass anything.
ValidArgs(e, path, list, provider) ==
    e = "main" => (list = NoList \/ list.items # <<>>) /\ Supported(provider)

StartRun(e, path, list, provider, before) ==
    /\ ValidArgs(e, path, list, provider)
    /\ entry' = e
    /\ project_path' = path
    /\ file_list' = list
    /\ llm_provider' = provider
    /\ max_concurrent_calls' = DefaultConcurrency
    /\ semaphore' = IF e = "direct" THEN DefaultConcurrency ELSE 0
    /\ pc' = "start"
    /\ exc' = "none"
    /\ files' = <<>>
    /\ tasks' = <<>>
    /\ summaries' = <<>>
    /\ llm' = "idle"
    /\ log' = {}
    /\ out_before' = before

\* main: `if not args.directory and not args.files: parser.error(...)`
MainAccepts == entry = "direct" \/ TruthyPath(project_path) \/ TruthyList(file_list)

\* main builds the analyzer (and its semaphore) before analyze_project.
Constructed == IF entry = "main" THEN max_concurrent_calls ELSE semaphore

\* main's `except Exception` logs what analyze_project raised.
MainLogs(messages) ==
    IF entry = "main" THEN messages \cup {"An error occurred during analysis"}
    ELSE messages

\* analyze_project: `if file_list: ... elif project_path: ... else: raise`
HasInput == TruthyList(file_list) \/ TruthyPath(project_path)

\* (variant: the directory is tested before the file list)
CollectFilesDirectoryFirst ==
    IF TruthyPath(project_path) THEN PythonFiles(WalkEntries(project_path))
    ELSE IF TruthyList(file_list) THEN file_list.items
    ELSE <<>>
CollectFiles ==
    IF TruthyList(file_list) THEN file_list.items
    ELSE IF TruthyPath(project_path) THEN PythonFiles(WalkEntries(project_path))
    ELSE <<>>

MainUsageError ==
    /\ pc = "start"
    /\ ~MainAccepts
    /\ pc' = "usage_error"
    /\ exc' = "SystemExit"
    /\ UNCHANGED <<argVars, files, tasks, summaries, llm, log, outVars, out_before>>
    /\ UNCHANGED objVars
    /\ UNCHANGED <<sanVars, limVars>>

\* analyze_project raises ValueError: neither argument is usable.
AnalyzeProjectNoInput ==
    /\ pc = "start"
    /\ MainAccepts
    /\ ~HasInput
    /\ semaphore' = Constructed
    /\ pc' = "raised"
    /\ exc' = "ValueError_input"
    /\ log' = MainLogs(log)
    /\ UNCHANGED <<argVars, files, tasks, summaries, llm, outVars, out_before>>
    /\ UNCHANGED <<llm_provider, max_concurrent_calls>>
    /\ UNCHANGED <<sanVars, limVars>>

\* analyze_project: `if not files: logger.error(...); return`
AnalyzeProjectNothing ==
    /\ pc = "start"
    /\ MainAccepts
    /\ HasInput
    /\ CollectFiles = <<>>
    /\ semaphore' = Constructed
    /\ pc' = "nothing"
    /\ log' = log \cup {"No Python files found to analyze"}
    /\ UNCHANGED <<argVars, exc, files, tasks, summaries, llm, outVars, out_before>>
    /\ UNCHANGED <<llm_provider, max_concurrent_calls>>
    /\ UNCHANGED <<sanVars, limVars>>

\* analyze_project reaches `await self.analyze_files(files)`: one
\* summarize_file coroutine per file is handed to asyncio.gather.
AnalyzeProjectFanOut ==
    /\ pc = "start"
    /\ MainAccepts
    /\ HasInput
    /\ CollectFiles # <<>>
    /\ semaphore' = Constructed
    /\ files' = CollectFiles
    /\ tasks' = [i \in 1..Len(CollectFiles) |-> [done |-> FALSE, text |-> EmptyText]]
    /\ pc' = "gather"
    /\ log' = log \cup {"Analyzing"}
    /\ UNCHANGED <<argVars, exc, summaries, llm, outVars, out_before>>
    /\ UNCHANGED <<llm_provider, max_concurrent_calls>>
    /\ UNCHANGED <<sanVars, limVars>>

\* summarize_file(files[i]): the read returns the text of the file.
TaskSummarizeOk(i) ==
    /\ pc = "gather"
    /\ ~tasks[i].done
    /\ tasks' = [tasks EXCEPT ![i] = [done |-> TRUE, text |-> sanitize(FileContent(files[i]))]]
    /\ UNCHANGED <<argVars, pc, exc, files, summaries, llm, log, outVars, out_before>>
    /\ UNCHANGED objVars
    /\ UNCHANGED <<sanVars, limVars>>

\* summarize_file(files[i]): the read fails; read_file logs and returns "".
TaskSummarizeReadError(i) ==
    /\ pc = "gather"
    /\ ~tasks[i].done
    /\ tasks' = [tasks EXCEPT ![i] = [done |-> TRUE, text |-> sanitize(EmptyText)]]
    /\ log' = log \cup {"Error reading"}
    /\ UNCHANGED <<argVars, pc, exc, files, summaries, llm, outVars, out_before>>
    /\ UNCHANGED objVars
    /\ UNCHANGED <<sanVars, limVars>>

TaskTexts == [i \in 1..Len(tasks) |-> tasks[i].text]

\* gather returns, analyze_files builds the dict, generate_summary builds
\* the prompt, takes a slot and awaits the provider call.
GenerateSummaryCall ==
    /\ pc = "gather"
    /\ GatherReady(tasks)
    /\ Supported(llm_provider)
    /\ CanAcquire(semaphore)
    /\ summaries' = DictOf(files, TaskTexts, Len(files))
    /\ semaphore' = Acquire(semaphore)
    /\ llm' = "in_flight"
    /\ pc' = "generate"
    /\ UNCHANGED <<argVars, exc, files, tasks, log, outVars, out_before>>
    /\ UNCHANGED <<llm_provider, max_concurrent_calls>>
    /\ UNCHANGED <<sanVars, limVars>>

\* The same, but the provider is none of the three: ValueError is raised
\* inside `async with`, and propagates out of analyze_project.
GenerateSummaryRejects ==
    /\ pc = "gather"
    /\ GatherReady(tasks)
    /\ ~Supported(llm_provider)
    /\ CanAcquire(semaphore)
    /\ summaries' = DictOf(files, TaskTexts, Len(files))
    /\ semaphore' = AsyncWithExit(Acquire(semaphore), TRUE)
    /\ pc' = "raised"
    /\ exc' = "ValueError_provider"
    /\ log' = MainLogs(log)
    /\ UNCHANGED <<argVars, files, tasks, llm, outVars, out_before>>
    /\ UNCHANGED <<llm_provider, max_concurrent_calls>>
    /\ UNCHANGED <<sanVars, limVars>>

\* The provider answers.
ProviderResponds ==
    /\ pc = "generate"
    /\ llm = "in_flight"
    /\ llm' = "responded"
    /\ UNCHANGED <<argVars, pc, exc, files, tasks, summaries, log, outVars, out_before>>
    /\ UNCHANGED objVars
    /\ UNCHANGED <<sanVars, limVars>>

\* The provider call fails (network, authentication, provider side).
ProviderFails ==
    /\ pc = "generate"
    /\ llm = "in_flight"
    /\ llm' = "failed"
    /\ UNCHANGED <<argVars, pc, exc, files, tasks, summaries, log, outVars, out_before>>
    /\ UNCHANGED objVars
    /\ UNCHANGED <<sanVars, limVars>>

\* generate_summary raises what the provider call raised, after writing the
\* per-file outputs.
AnalyzeProjectFailsAfterWriting ==
    /\ pc = "generate"
    /\ llm = "failed"
    /\ semaphore' = AsyncWithExit(semaphore, TRUE)
    /\ out_exists' = TRUE
    /\ out_files' = WriteSummaries(out_files, summaries, Len(summaries))
    /\ pc' = "raised"
    /\ exc' = "LLMCallFailure"
    /\ log' = MainLogs(log)
    /\ UNCHANGED <<argVars, files, tasks, summaries, llm, out_before>>
    /\ UNCHANGED <<llm_provider, max_concurrent_calls>>
    /\ UNCHANGED <<sanVars, limVars>>

\* generate_summary raises what the provider call raised; analyze_project
\* ends there.
AnalyzeProjectFails ==
    /\ pc = "generate"
    /\ llm = "failed"
    /\ semaphore' = AsyncWithExit(semaphore, TRUE)
    /\ pc' = "raised"
    /\ exc' = "LLMCallFailure"
    /\ log' = MainLogs(log)
    /\ UNCHANGED <<argVars, files, tasks, summaries, llm, outVars, out_before>>
    /\ UNCHANGED <<llm_provider, max_concurrent_calls>>
    /\ UNCHANGED <<sanVars, limVars>>

\* generate_summary returns; analyze_project makes the output directory,
\* writes one file per dict entry and project_summary.md.
SaveResults ==
    /\ pc = "generate"
    /\ llm = "responded"
    /\ semaphore' = AsyncWithExit(semaphore, FALSE)
    /\ out_exists' = TRUE
    /\ out_files' = SavedFiles(out_files, summaries, Response)
    /\ pc' = "done"
    /\ log' = log \cup {"Analysis complete"}
    /\ UNCHANGED <<argVars, exc, files, tasks, summaries, llm, out_before>>
    /\ UNCHANGED <<llm_provider, max_concurrent_calls>>
    /\ UNCHANGED <<sanVars, limVars>>

RunEnded == pc \in {"done", "nothing", "raised", "usage_error"}

\* The program is run again, into the same output directory.
NewRun ==
    /\ RunEnded
    /\ \E e \in {"main", "direct"}, path \in ProjectPaths, provider \in Providers,
          given \in BOOLEAN, items \in FileLists :
          /\ given \/ items = <<>>
          /\ StartRun(e, path, [given |-> given, items |-> items], provider, Outputs)
    /\ UNCHANGED <<outVars, sanVars, limVars>>

Init ==
    /\ SanIdle
    /\ LimIdle
    /\ out_exists = FALSE
    /\ out_files = <<>>
    /\ out_before = [exists |-> FALSE, files |-> <<>>]
    /\ entry \in {"main", "direct"}
    /\ project_path \in ProjectPaths
    /\ file_list \in {[given |-> g, items |-> l] : g \in BOOLEAN, l \in FileLists}
    /\ file_list.given \/ file_list.items = <<>>
    /\ llm_provider \in Providers
    /\ ValidArgs(entry, project_path, file_list, llm_provider)
    /\ max_concurrent_calls = DefaultConcurrency
    /\ semaphore = IF entry = "direct" THEN DefaultConcurrency ELSE 0
    /\ pc = "start"
    /\ exc = "none"
    /\ files = <<>>
    /\ tasks = <<>>
    /\ summaries = <<>>
    /\ llm = "idle"
    /\ log = {}

Next ==
    \/ MainUsageError
    \/ AnalyzeProjectNoInput
    \/ AnalyzeProjectNothing
    \/ AnalyzeProjectFanOut
    \/ \E i \in 1..Len(tasks) : TaskSummarizeOk(i)
    \/ \E i \in 1..Len(tasks) : TaskSummarizeReadError(i)
    \/ GenerateSummaryCall
    \/ GenerateSummaryRejects
    \/ ProviderResponds
    \/ ProviderFails
    \/ AnalyzeProjectFails
    \/ SaveResults
    \/ NewRun

Spec == Init /\ [][Next]_vars

----------------------------------------------------------------------------
(* Properties of a run *)

AllTasksDone == \A i \in 1..Len(tasks) : tasks[i].done

\* analyze_files has returned its dict in this run.
AnalyzeFilesReturned ==
    \/ pc \in {"generate", "done"}
    \/ pc = "raised" /\ exc \in {"ValueError_provider", "LLMCallFailure"}

\* The aggregate step ended in a failure.
AggregateFailed == pc = "raised" /\ exc \in {"ValueError_provider", "LLMCallFailure"}

\* Nothing was read, no provider call was dispatched, nothing was written.
NothingTouched ==
    /\ tasks = <<>>
    /\ summaries = <<>>
    /\ llm = "idle"
    /\ Outputs = out_before

\* C2: when generate_summary ends in a failure (a provider call failure or
\* an unsupported provider), the run has created no output directory and
\* written no file, although every file was sanitized before.
C2_FailedAggregateWritesNothing ==
    AggregateFailed => AllTasksDone /\ Outputs = out_before

C2_Witness ==
    /\ AggregateFailed
    /\ exc = "LLMCallFailure"
    /\ summaries # <<>>
    /\ ~out_exists

\* C3 as claimed: after a successful run the output directory holds exactly
\* one file per entry of the dict plus project_summary.md.
C3_OneFilePerEntryPlusSummary ==
    pc = "done" =>
        /\ out_exists
        /\ Cardinality(DOMAIN out_files) = Len(summaries) + 1
        /\ SummaryName \in DOMAIN out_files

Accepted == pc \in {"gather", "generate", "done", "nothing"} \/ AggregateFailed
Rejected == pc = "usage_error" \/ (pc = "raised" /\ exc = "ValueError_input")

RECURSIVE SurvivingPaths(_)
SurvivingPaths(n) ==
    IF n = 0 THEN <<>>
    ELSE SurvivingPaths(n - 1) \o (IF tasks[n].text # EmptyText THEN <<files[n]>> ELSE <<>>)

Surviving == {i \in 1..Len(files) : tasks[i].text # EmptyText}

FirstSurviving(path) ==
    CHOOSE i \in Surviving :
        files[i] = path /\ \A j \in Surviving : files[j] = path => i <= j

\* C5 as claimed: the key sequence of the dict analyze_files returns is
\* exactly the input paths whose sanitized text is non-empty, in input order.
C5_KeysAreSurvivingInputs ==
    AnalyzeFilesReturned => Keys(summaries) = SurvivingPaths(Len(files))

\* C5 amended: the keys of the dict are the input paths whose sanitized text
\* is non-empty, each once, in the order of their first such occurrence in
\* the input; each value is the sanitized text of its file, whichever reads
\* of other paths failed.
C5_KeysAreDistinctSurvivingInputs ==
    AnalyzeFilesReturned =>
        /\ AllTasksDone
        /\ KeySet(summaries) = {files[i] : i \in Surviving}
        /\ Cardinality(KeySet(summaries)) = Len(summaries)
        /\ \A a, b \in 1..Len(summaries) :
              a < b => FirstSurviving(summaries[a].key) < FirstSurviving(summaries[b].key)
        /\ \A k \in 1..Len(summaries) :
              /\ summaries[k].value # EmptyText
              /\ summaries[k].value = sanitize(FileContent(summaries[k].key))

C5_Witness ==
    /\ AnalyzeFilesReturned
    /\ "Error reading" \in log
    /\ Len(summaries) >= 2
    /\ Len(summaries) < Len(files)

\* The ways the claim lets an empty file sequence arise.
EmptyFileListGiven == file_list.given /\ file_list.items = <<>>
DirectoryWithoutMatch ==
    /\ ~file_list.given
    /\ TruthyPath(project_path)
    /\ PythonFiles(WalkEntries(project_path)) = <<>>

NothingToAnalyze ==
    /\ pc = "nothing"
    /\ exc = "none"
    /\ "No Python files found to analyze" \in log
    /\ NothingTouched

\* C6 as claimed: an empty collected sequence, from a directory without a
\* matching file or from an empty file list, ends the run in the logged
\* "nothing to analyze" state: no exception, no read, no provider call, no
\* output.
C6_EmptyInputEndsInNothing ==
    ((EmptyFileListGiven \/ DirectoryWithoutMatch) /\ MainAccepts /\ pc # "start")
        => NothingToAnalyze

\* C6 amended: a directory without a matching file ends the run in the
\* logged "nothing to analyze" state, with no exception, no read, no
\* provider call and no output.  An empty file list is treated as no file
\* list: without a directory the run raises ValueError (still with no read,
\* provider call or output), and with a directory the directory is scanned.
C6_EmptyDirectoryEndsInNothing ==
    /\ (DirectoryWithoutMatch /\ pc # "start") => NothingToAnalyze
    /\ pc = "nothing" => NothingToAnalyze /\ files = <<>> /\ CollectFiles = <<>>
    /\ (EmptyFileListGiven /\ pc # "start") =>
          IF TruthyPath(project_path)
          THEN \/ NothingToAnalyze
               \/ Accepted /\ files = PythonFiles(WalkEntries(project_path))
          ELSE Rejected /\ NothingTouched

C6_Witness ==
    /\ DirectoryWithoutMatch
    /\ out_exists
    /\ NothingToAnalyze

\* C10: the provider call is dispatched only when every summarize_file task
\* has finished, and the output is written only after the provider answered.
C10_BarrierThenCallThenWrite ==
    /\ (llm # "idle" \/ AnalyzeFilesReturned) => AllTasksDone
    /\ pc = "done" => llm = "responded"
    /\ Outputs # out_before => pc = "done"

C10_Witness ==
    /\ pc = "done"
    /\ Len(tasks) >= 2
    /\ "Error reading" \in log
    /\ Outputs # out_before

----------------------------------------------------------------------------
(* Reading a text as Python source, line by line (used to state C7 and C8) *)

LineStart(s, i) ==
    IF \E j \in 1..(i-1) : s[j] = NL
    THEN (CHOOSE j \in 1..(i-1) : s[j] = NL /\ \A k \in (j+1)..(i-1) : s[k] # NL) + 1
    ELSE 1

\* The lexical state just before position i, scanning from j in state q:
\* "code", "comment", or the quote character of the open string literal.
RECURSIVE Lex(_, _, _, _)
Lex(s, j, i, q) ==
    IF j >= i THEN q
    ELSE IF q = "comment" THEN q
    ELSE IF q = "code" THEN
        IF s[j] \in {DQUOTE, SQUOTE} THEN Lex(s, j + 1, i, s[j])
        ELSE IF s[j] = HASH THEN "comment"
        ELSE Lex(s, j + 1, i, "code")
    ELSE IF s[j] = BACKSLASH THEN Lex(s, j + 2, i, q)
    ELSE IF s[j] = q THEN Lex(s, j + 1, i, "code")
    ELSE Lex(s, j + 1, i, q)

\* The literal opened with quote q is closed at or after j, on the same line.
RECURSIVE Closes(_, _, _)
Closes(s, j, q) ==
    IF j > Len(s) THEN FALSE
    ELSE IF s[j] = NL THEN FALSE
    ELSE IF s[j] = BACKSLASH THEN Closes(s, j + 2, q)
    ELSE IF s[j] = q THEN TRUE
    ELSE Closes(s, j + 1, q)

\* Position i holds a '#' inside a string literal that opens and closes on
\* the line of i.
InSameLineLiteral(s, i) ==
    /\ s[i] = HASH
    /\ LET q == Lex(s, LineStart(s, i), i, "code")
       IN  q \in {DQUOTE, SQUOTE} /\ Closes(s, i + 1, q)

\* The '#' at position j directly follows a quote character or a backslash.
QuoteBefore(s, j) == j > 1 /\ s[j-1] \in {"\"", "'", "\\"}

\* Every '#' of the line of i, up to and including i, directly follows a
\* quote character or a backslash.
HashesQuoteGuardedUpTo(s, i) ==
    \A j \in LineStart(s, i)..i : s[j] = HASH => QuoteBefore(s, j)

SanitizerRan == sf_pc = "returned" /\ ~sf_logged

\* C7 as claimed: summarize_file never removes a '#', nor the text after it
\* on its line, when the '#' is inside a same-line quoted string literal,
\* whatever character precedes it.
C7_LiteralHashNeverRemoved ==
    SanitizerRan =>
        \A i \in 1..Len(sf_disk) :
            InSameLineLiteral(sf_disk, i) =>
                \A j \in i..(LineEnd(sf_disk, i) - 1) : j \in KeptPositions(sf_disk)

\* C7 amended: a '#' inside a same-line quoted string literal is kept exactly
\* when it, and every '#' before it on its line, directly follows a quote
\* character or a backslash; otherwise it is removed.  The returned text is
\* the kept positions of the file text.
C7_LiteralHashKeptIffQuoteGuarded ==
    SanitizerRan =>
        /\ sf_result = Pick(sf_disk, KeptSeq(sf_disk))
        /\ \A i \in 1..Len(sf_disk) :
              InSameLineLiteral(sf_disk, i) =>
                  (i \in KeptPositions(sf_disk) <=> HashesQuoteGuardedUpTo(sf_disk, i))

C7_Witness ==
    /\ SanitizerRan
    /\ \E i \in 1..Len(sf_disk) :
          /\ InSameLineLiteral(sf_disk, i)
          /\ HashesQuoteGuardedUpTo(sf_disk, i)
          /\ i \in KeptPositions(sf_disk)
          /\ HASH \in {sf_result[k] : k \in 1..Len(sf_result)}

\* Lines of a text, by the position of their first character.
LineStarts(s) == {i \in 1..Len(s) : AtLineStart(s, i)}

FirstNonBlank(s, ls) ==
    IF \E j \in ls..Len(s) : s[j] # " "
    THEN CHOOSE j \in ls..Len(s) : s[j] # " " /\ \A k \in ls..(j-1) : s[k] = " "
    ELSE Len(s) + 1

IsCommentOnlyLine(s, ls) ==
    LET j == FirstNonBlank(s, ls) IN j <= Len(s) /\ s[j] = HASH

IsCodeLine(s, ls) ==
    LET j == FirstNonBlank(s, ls) IN j <= Len(s) /\ s[j] \notin {HASH, NL}

====
